---- MODULE Spec2Model ----
(***************************************************************************)
(* Model of PromptToHoneypot: the artifact extractor                       *)
(* (script.py extractRelevantContent), the subnet/gateway calculator       *)
(* (utils.py calculateGatewayIp) and the container lifecycle controller    *)
(* (script.py runDockerContainer, createHostOnlyNetwork, stopContainer,    *)
(* removeContainer) driving the container engine CLI.                      *)
(***************************************************************************)
EXTENDS Integers, Sequences, FiniteSets, TLC

VARIABLES
    \* ---- artifact extractor ----
    doc,              \* how the completion text was composed (segments)
    gpt_response,     \* the response handed to extractRelevantContent
    extracted_files,  \* its return value
    pcX,              \* "idle" | "start" | "done" | "again"
    \* ---- generate step of the menu loop ----
    saved_prompt,     \* content of saved_prompt.txt (<<>> when absent)
    output,           \* the output directory and the three artifact files
    choice,           \* the menu choice handled last
    said,             \* what handling it printed
    pcMain,           \* "menu" | "exited": main is in its loop or has ended
    \* ---- subnet/gateway calculator ----
    subnet_parts,     \* how the subnet string was composed (tokens)
    subnet,           \* the string handed to calculateGatewayIp
    gateway,          \* what calculateGatewayIp returned or raised
    pcG,              \* "idle" | "start" | "done"
    \* ---- container engine and lifecycle controller ----
    containers,       \* states of the engine's containers named honeypot_container
    networks,         \* the engine's user-defined networks
    image,            \* the engine holds an image tagged honeypot
    saved_network,    \* content of saved_network.txt ("" when absent)
    saved_ip,         \* content of saved_ip.txt (<<>> when absent)
    op,               \* the handler invoked last, with its arguments
    calls,            \* the engine commands that invocation issued, in order
    pre,              \* the engine state when that invocation began
    report            \* what that invocation printed or logged

varsX == <<doc, gpt_response, extracted_files, pcX>>
varsG == <<subnet_parts, subnet, gateway, pcG>>
varsE == <<containers, networks, image>>
varsL ==
    <<containers, networks, image, saved_network, saved_ip, op, calls, pre,
      report>>
varsM == <<saved_prompt, output, choice, said, pcMain>>
vars == <<varsX, varsG, varsL, varsM>>

(***************************************************************************)
(* Text: a sequence of one-character strings.                              *)
(***************************************************************************)
\* the backtick character
BT == "BACKTICK"
NL == "\n"
SP == " "
TAB == "\t"

\* The characters str.strip() removes (those that occur in the model).
Whitespace == {SP, NL, TAB}

Fence == <<BT, BT, BT>>

\* script.py 184-186: str.strip()
RECURSIVE LStrip(_)
LStrip(s) ==
    IF s # <<>> /\ Head(s) \in Whitespace THEN LStrip(Tail(s)) ELSE s

RECURSIVE RStrip(_)
RStrip(s) ==
    IF s # <<>> /\ s[Len(s)] \in Whitespace
    THEN RStrip(SubSeq(s, 1, Len(s) - 1))
    ELSE s

Strip(s) == RStrip(LStrip(s))

(***************************************************************************)
(* re.findall over the fence pattern of script.py line 178: three         *)
(* backticks, a label of non-newline characters, a newline, a lazy body,   *)
(* three backticks.  At a position holding three backticks the label runs  *)
(* to the first newline (it cannot cross one and a newline must follow     *)
(* it), the lazy body runs to the first later fence; the scan resumes      *)
(* after the closing fence.  Where no match starts, the scan moves one     *)
(* character on.                                                           *)
(***************************************************************************)
IsFenceAt(t, i) ==
    /\ i >= 1
    /\ i + 2 <= Len(t)
    /\ t[i] = BT /\ t[i + 1] = BT /\ t[i + 2] = BT

\* first index >= i holding a newline, 0 if none
FirstNewline(t, i) ==
    LET S == {j \in i..Len(t) : t[j] = NL}
    IN  IF S = {} THEN 0 ELSE CHOOSE j \in S : \A k \in S : j <= k

\* first index >= i where a fence starts, 0 if none
FirstFence(t, i) ==
    LET S == {j \in i..Len(t) : IsFenceAt(t, j)}
    IN  IF S = {} THEN 0 ELSE CHOOSE j \in S : \A k \in S : j <= k

RECURSIVE FindAllFrom(_, _)
FindAllFrom(t, i) ==
    IF i > Len(t) THEN <<>>
    ELSE IF ~IsFenceAt(t, i) THEN FindAllFrom(t, i + 1)
    ELSE LET nl == FirstNewline(t, i + 3)
             cl == IF nl = 0 THEN 0 ELSE FirstFence(t, nl + 1)
         IN  IF cl = 0
             THEN FindAllFrom(t, i + 1)
             ELSE <<SubSeq(t, nl + 1, cl - 1)>> \o FindAllFrom(t, cl + 3)

\* variant: the scan resumes at the closing fence instead of after it, so a
\* closing fence can open the next match
RECURSIVE FindAllOverlapping(_, _)
FindAllOverlapping(t, i) ==
    IF i > Len(t) THEN <<>>
    ELSE IF ~IsFenceAt(t, i) THEN FindAllOverlapping(t, i + 1)
    ELSE LET nl == FirstNewline(t, i + 3)
             cl == IF nl = 0 THEN 0 ELSE FirstFence(t, nl + 1)
         IN  IF cl = 0
             THEN FindAllOverlapping(t, i + 1)
             ELSE <<SubSeq(t, nl + 1, cl - 1)>> \o FindAllOverlapping(t, cl)

FindCodeBlocksOverlapping(t) == FindAllOverlapping(t, 1)

\* script.py 178
FindCodeBlocks(t) == FindAllFrom(t, 1)

ArtifactNames == <<"Dockerfile", "supervisord.conf", "setup_services.sh">>
ArtifactKeys == {ArtifactNames[i] : i \in 1..3}

\* the failure value (Python None)
None == [ok |-> FALSE]

\* script.py 183-187: the block index each key is bound to
BlockIndex(k) == CHOOSE i \in 1..3 : ArtifactNames[i] = k

\* variant: the second and third blocks bound the other way round
BindBlocksSwapped(code_blocks) ==
    [k \in ArtifactKeys |->
        Strip(code_blocks[IF BlockIndex(k) = 1 THEN 1 ELSE 5 - BlockIndex(k)])]

BindBlocks(code_blocks) ==
    [k \in ArtifactKeys |-> Strip(code_blocks[BlockIndex(k)])]

\* variant: the final all(extracted.values()) test left out
extractWithoutEmptyCheck(resp) ==
    IF resp.choices = <<>> THEN None
    ELSE LET message_content == resp.choices[1]
         IN  IF message_content = <<>> THEN None
             ELSE LET code_blocks == FindCodeBlocks(message_content)
                  IN  IF Len(code_blocks) < 3 THEN None
                      ELSE [ok |-> TRUE, files |-> BindBlocks(code_blocks)]

\* script.py 166-199
extractRelevantContent(resp) ==
    IF resp.choices = <<>> THEN None
    ELSE LET message_content == resp.choices[1]
         IN  IF message_content = <<>> THEN None
             ELSE LET code_blocks == FindCodeBlocks(message_content)
                  IN  IF Len(code_blocks) < 3 THEN None
                      ELSE LET extracted == BindBlocks(code_blocks)
                           IN  IF \E k \in ArtifactKeys : extracted[k] = <<>>
                               THEN None
                               ELSE [ok |-> TRUE, files |-> extracted]

(***************************************************************************)
(* Subnet/gateway calculator: utils.py calculateGatewayIp, which rests on  *)
(* ipaddress.IPv4Network(subnet, strict=False) and IPv4Address + 1.        *)
(* A 32-bit address is kept as two 16-bit halves [hi, lo].                 *)
(***************************************************************************)
Digits == <<"0", "1", "2", "3", "4", "5", "6", "7", "8", "9">>
IsDigit(c) == \E i \in 1..10 : Digits[i] = c
DigitVal(c) == (CHOOSE i \in 1..10 : Digits[i] = c) - 1

\* str.isascii() and str.isdigit(): false for the empty string
AllDigits(s) == s # <<>> /\ \A i \in 1..Len(s) : IsDigit(s[i])

\* int(s, 10) of a string of digits
RECURSIVE ParseDecimal(_)
ParseDecimal(s) ==
    IF s = <<>> THEN 0
    ELSE ParseDecimal(SubSeq(s, 1, Len(s) - 1)) * 10 + DigitVal(s[Len(s)])

\* str(n) of a natural number
RECURSIVE ToStr(_)
ToStr(n) ==
    IF n < 10 THEN <<Digits[n + 1]>>
    ELSE ToStr(n \div 10) \o <<Digits[(n % 10) + 1]>>

\* str.split(sep)
RECURSIVE Split(_, _)
Split(s, sep) ==
    LET S == {i \in 1..Len(s) : s[i] = sep}
    IN  IF S = {} THEN <<s>>
        ELSE LET i == CHOOSE j \in S : \A k \in S : j <= k
             IN  <<SubSeq(s, 1, i - 1)>> \o Split(SubSeq(s, i + 1, Len(s)), sep)

RECURSIVE Pow2(_)
Pow2(n) == IF n = 0 THEN 1 ELSE 2 * Pow2(n - 1)

HalfBits == 16
HalfMax == Pow2(HalfBits) - 1
MaxPrefixLen == 32
MaxOctet == 255

\* the result of a failed parse
Bad == [ok |-> FALSE]

\* _parse_octet: the octet value, or -1 where it raises ValueError
ParseOctet(octet_str) ==
    IF octet_str = <<>> THEN -1
    ELSE IF ~AllDigits(octet_str) THEN -1
    ELSE IF Len(octet_str) > 3 THEN -1
    ELSE IF octet_str # <<"0">> /\ octet_str[1] = "0" THEN -1
    ELSE IF ParseDecimal(octet_str) > MaxOctet THEN -1
    ELSE ParseDecimal(octet_str)

IpIntFromValues(a, b, c, d) ==
    IF a = -1 \/ b = -1 \/ c = -1 \/ d = -1 THEN Bad
    ELSE [ok |-> TRUE, hi |-> a * 256 + b, lo |-> c * 256 + d]

IpIntFromOctets(octets) ==
    IF Len(octets) # 4 THEN Bad
    ELSE IpIntFromValues(ParseOctet(octets[1]), ParseOctet(octets[2]),
                         ParseOctet(octets[3]), ParseOctet(octets[4]))

\* _ip_int_from_string
IpIntFromString(ip_str) ==
    IF ip_str = <<>> THEN Bad ELSE IpIntFromOctets(Split(ip_str, "."))

\* _prefix_from_prefix_string: the prefix length, or -1 (NetmaskValueError)
PrefixFromPrefixString(prefixlen_str) ==
    IF ~AllDigits(prefixlen_str) THEN -1
    ELSE IF ParseDecimal(prefixlen_str) > MaxPrefixLen THEN -1
    ELSE ParseDecimal(prefixlen_str)

\* number of low zero bits of a 16-bit half x > 0
TrailingZeroes16(x) ==
    CHOOSE k \in 0..(HalfBits - 1) :
        x % Pow2(k) = 0 /\ x % Pow2(k + 1) # 0

\* _count_righthand_zero_bits(ip_int, 32)
CountRighthandZeroBits(hi, lo) ==
    IF lo # 0 THEN TrailingZeroes16(lo)
    ELSE IF hi # 0 THEN HalfBits + TrailingZeroes16(hi)
    ELSE MaxPrefixLen

\* _prefix_from_ip_int: the prefix length of a netmask of leading ones, or
\* -1 where the pattern mixes zeroes and ones (ValueError)
PrefixFromIpInt(hi, lo) ==
    LET tz == CountRighthandZeroBits(hi, lo)
        allOnes ==
            IF tz >= HalfBits
            THEN lo = 0 /\ hi = Pow2(HalfBits) - Pow2(tz - HalfBits)
            ELSE hi = HalfMax /\ lo = Pow2(HalfBits) - Pow2(tz)
    IN  IF tz = MaxPrefixLen THEN 0
        ELSE IF allOnes THEN MaxPrefixLen - tz
        ELSE -1

PrefixFromIp(ip) ==
    IF ~ip.ok THEN -1
    ELSE IF PrefixFromIpInt(ip.hi, ip.lo) # -1
         THEN PrefixFromIpInt(ip.hi, ip.lo)
         ELSE PrefixFromIpInt(HalfMax - ip.hi, HalfMax - ip.lo)

\* _prefix_from_ip_string: dotted netmask, else dotted hostmask, else -1
PrefixFromIpString(ip_str) == PrefixFromIp(IpIntFromString(ip_str))

\* _make_netmask for a string argument
MakeNetmask(arg) ==
    IF PrefixFromPrefixString(arg) # -1
    THEN PrefixFromPrefixString(arg)
    ELSE PrefixFromIpString(arg)

\* packed & int(netmask): the netmask of a prefix length is leading ones, so
\* the AND clears the low 32 - prefixlen bits
AndNetmask(hi, lo, prefixlen) ==
    IF prefixlen >= HalfBits
    THEN [hi |-> hi, lo |-> lo - (lo % Pow2(MaxPrefixLen - prefixlen))]
    ELSE [hi |-> hi - (hi % Pow2(HalfBits - prefixlen)), lo |-> 0]

\* variant: strict=True, host bits set raise ValueError
NetworkOfStrict(ip, prefixlen) ==
    IF ~ip.ok THEN Bad
    ELSE IF prefixlen = -1 THEN Bad
    ELSE IF AndNetmask(ip.hi, ip.lo, prefixlen) # [hi |-> ip.hi, lo |-> ip.lo]
         THEN Bad
    ELSE [ok |-> TRUE, prefixlen |-> prefixlen,
          network_address |-> [hi |-> ip.hi, lo |-> ip.lo]]

\* IPv4Network.__init__ with strict=False: the address, then the netmask,
\* then the host bits are cleared
NetworkOf(ip, prefixlen) ==
    IF ~ip.ok THEN Bad
    ELSE IF prefixlen = -1 THEN Bad
    ELSE [ok |-> TRUE, prefixlen |-> prefixlen,
          network_address |-> AndNetmask(ip.hi, ip.lo, prefixlen)]

\* _split_addr_prefix: at most one slash; no slash means /32
NetworkOfParts(parts) ==
    IF Len(parts) > 2 THEN Bad
    ELSE NetworkOf(IpIntFromString(parts[1]),
                   IF Len(parts) = 2 THEN MakeNetmask(parts[2])
                   ELSE MaxPrefixLen)

\* utils.py 49: ipaddress.IPv4Network(subnet, strict=False)
IPv4Network(address) == NetworkOfParts(Split(address, "/"))

\* _string_from_ip_int: dotted decimal
StringFromIpInt(hi, lo) ==
    ToStr(hi \div 256) \o <<".">> \o ToStr(hi % 256) \o <<".">> \o
    ToStr(lo \div 256) \o <<".">> \o ToStr(lo % 256)

\* raise ValueError(f"Invalid subnet format: {e}")
InvalidSubnetFormat == [ok |-> FALSE, error |-> "ValueError"]

Returned(hi, lo) == [ok |-> TRUE, ip |-> StringFromIpInt(hi, lo)]

\* variant: the first usable host, next(network.hosts()), which is the base
\* address itself for a /31 and the address itself for a /32
FirstHost(network) ==
    IF ~network.ok THEN InvalidSubnetFormat
    ELSE IF network.prefixlen >= MaxPrefixLen - 1
         THEN Returned(network.network_address.hi, network.network_address.lo)
    ELSE IF network.network_address.lo = HalfMax
         THEN Returned(network.network_address.hi + 1, 0)
    ELSE Returned(network.network_address.hi, network.network_address.lo + 1)

\* utils.py 50: str(network.network_address + 1).  The sum builds
\* IPv4Address(int + 1), which raises AddressValueError (a ValueError) for
\* 2**32.
AddressPlusOne(a) ==
    IF a.hi = HalfMax /\ a.lo = HalfMax THEN InvalidSubnetFormat
    ELSE IF a.lo = HalfMax THEN Returned(a.hi + 1, 0)
    ELSE Returned(a.hi, a.lo + 1)

\* utils.py 48-52: the except clause turns every ValueError of the try
\* block, the parse's and the sum's, into the invalid-format error
GatewayOf(network) ==
    IF ~network.ok THEN InvalidSubnetFormat
    ELSE AddressPlusOne(network.network_address)

\* utils.py 46-52
calculateGatewayIp(subnet_str) == GatewayOf(IPv4Network(subnet_str))

(***************************************************************************)
(* Completion texts: concatenations of segments.  A block segment is a     *)
(* fenced block (opening fence, label, newline, body, closing fence); a    *)
(* prose segment holds no fence; a junk segment is a stray or inline fence.*)
(***************************************************************************)
MaxSegs == 4

BlockSeg(label, body) ==
    [kind |-> "block", label |-> label, body |-> body,
     text |-> Fence \o label \o <<NL>> \o body \o Fence]
ProseSeg(t) == [kind |-> "prose", text |-> t]
JunkSeg(t) == [kind |-> "junk", text |-> t]

Segments ==
    { BlockSeg(<<>>, <<"a">>),
      BlockSeg(<<"i", "n", "i">>, <<SP, "b", NL>>),
      BlockSeg(<<"p", SP, "y">>, <<"c", BT, NL, "d", NL>>),
      BlockSeg(<<"s", "h">>, <<SP, NL>>),
      BlockSeg(<<>>, <<>>),
      ProseSeg(<<"x", BT, NL, "y">>),
      JunkSeg(Fence),
      JunkSeg(Fence \o <<"z">> \o Fence) }

Docs == UNION {[1..n -> Segments] : n \in 0..MaxSegs}

RECURSIVE Flatten(_)
Flatten(d) == IF d = <<>> THEN <<>> ELSE Head(d).text \o Flatten(Tail(d))

\* the fenced blocks of a composed text, in document order
RECURSIVE BlocksOf(_)
BlocksOf(d) ==
    IF d = <<>> THEN <<>>
    ELSE IF Head(d).kind = "block"
         THEN <<Head(d)>> \o BlocksOf(Tail(d))
         ELSE BlocksOf(Tail(d))

WellFormed(d) == \A i \in 1..Len(d) : d[i].kind # "junk"

\* the components a specification does not exercise stay idle
IdleX ==
    /\ doc = <<>>
    /\ gpt_response = [choices |-> <<>>]
    /\ extracted_files = None
    /\ pcX = "idle"

IdleG ==
    /\ subnet_parts = <<>>
    /\ subnet = <<>>
    /\ gateway = None
    /\ pcG = "idle"

\* a file of the output directory
AbsentFile == [exists |-> FALSE]
FileWith(content) == [exists |-> TRUE, content |-> content]

IdleM ==
    /\ saved_prompt = <<>>
    /\ output = [dir |-> FALSE, files |-> [k \in ArtifactKeys |-> AbsentFile]]
    /\ choice = ""
    /\ said = <<>>
    /\ pcMain = "menu"

IdleL ==
    /\ containers = <<>>
    /\ networks = {}
    /\ image = FALSE
    /\ saved_network = ""
    /\ saved_ip = <<>>
    /\ op = [name |-> "none"]
    /\ calls = <<>>
    /\ pre = [containers |-> <<>>, networks |-> {}, image |-> FALSE]
    /\ report = <<>>

InitX ==
    /\ IdleG
    /\ IdleL
    /\ IdleM
    /\ doc \in Docs
    /\ \E hasChoices \in BOOLEAN :
          gpt_response =
              [choices |-> IF hasChoices THEN <<Flatten(doc)>> ELSE <<>>]
    /\ extracted_files = None
    /\ pcX = "start"

\* script.py 341 / GUI.py 299: extracted_files = extractRelevantContent(...)
\* variant: the extraction takes the choice it reads out of the response
ExtractConsuming ==
    /\ pcX \in {"start", "done"}
    /\ extracted_files' = extractRelevantContent(gpt_response)
    /\ gpt_response' = [choices |-> IF gpt_response.choices = <<>> THEN <<>>
                                    ELSE Tail(gpt_response.choices)]
    /\ pcX' = IF pcX = "start" THEN "done" ELSE "again"
    /\ UNCHANGED <<doc, varsG, varsL, varsM>>

\* the function applied to the response, and applied to it once more
Extract ==
    /\ pcX \in {"start", "done"}
    /\ extracted_files' = extractRelevantContent(gpt_response)
    /\ pcX' = IF pcX = "start" THEN "done" ELSE "again"
    /\ UNCHANGED <<doc, gpt_response, varsG, varsL, varsM>>

NextX == Extract

(***************************************************************************)
(* Subnet strings: an address of dot-separated octet tokens, optionally a  *)
(* slash and a prefix token.  val / len is the number a token denotes, -1  *)
(* for a token that is no octet / no prefix length or mask.                *)
(***************************************************************************)
Tok(text, val) == [text |-> text, val |-> val]

Octet1 == { Tok(<<"1", "9", "2">>, 192), Tok(<<"2", "5", "5">>, 255),
            Tok(<<"1", "0">>, 10), Tok(<<"x">>, -1) }
Octet2 == { Tok(<<"1", "6", "8">>, 168), Tok(<<"2", "5", "5">>, 255),
            Tok(<<"0">>, 0), Tok(<<"2", "5", "6">>, -1) }
Octet3 == { Tok(<<"2", "0", "0">>, 200), Tok(<<"2", "5", "5">>, 255),
            Tok(<<"0">>, 0), Tok(<<"0", "1">>, -1) }
Octet4 == { Tok(<<"0">>, 0), Tok(<<"5">>, 5), Tok(<<"2", "5", "4">>, 254),
            Tok(<<"2", "5", "5">>, 255), Tok(<<>>, -1) }

\* number of octets written: one too few, four, one too many
OctetCounts == {3, 4, 5}

Pfx(slash, text, len) == [slash |-> slash, text |-> text, len |-> len]

PrefixTokens ==
    { Pfx(FALSE, <<>>, 32),
      Pfx(TRUE, <<"0">>, 0),
      Pfx(TRUE, <<"8">>, 8),
      Pfx(TRUE, <<"0", "8">>, 8),
      Pfx(TRUE, <<"2", "0">>, 20),
      Pfx(TRUE, <<"2", "4">>, 24),
      Pfx(TRUE, <<"3", "1">>, 31),
      Pfx(TRUE, <<"3", "2">>, 32),
      Pfx(TRUE, <<"3", "3">>, -1),
      Pfx(TRUE, <<"x">>, -1),
      Pfx(TRUE, <<>>, -1),
      Pfx(TRUE, <<"+", "8">>, -1),
      Pfx(TRUE, <<"2", "4", "/", "8">>, -1),
      Pfx(TRUE, <<"2", "5", "5", ".", "2", "5", "5", ".", "2", "4", "0", ".", "0">>, 20),
      Pfx(TRUE, <<"0", ".", "0", ".", "0", ".", "2", "5", "5">>, 24),
      Pfx(TRUE, <<"2", "5", "5", ".", "0", ".", "2", "5", "5", ".", "0">>, -1) }

SubnetParts ==
    [octets : Octet1 \X Octet2 \X Octet3 \X Octet4,
     count : OctetCounts,
     prefix : PrefixTokens]

\* the string the parts spell
AddressText(parts) ==
    LET o == parts.octets
        three == o[1].text \o <<".">> \o o[2].text \o <<".">> \o o[3].text
    IN  IF parts.count = 3 THEN three
        ELSE IF parts.count = 4 THEN three \o <<".">> \o o[4].text
        ELSE three \o <<".">> \o o[4].text \o <<".", "1">>

SubnetText(parts) ==
    AddressText(parts) \o
        (IF parts.prefix.slash THEN <<"/">> \o parts.prefix.text ELSE <<>>)

\* the parts spell an IPv4 CIDR string
ValidCidr(parts) ==
    /\ parts.count = 4
    /\ \A i \in 1..4 : parts.octets[i].val >= 0
    /\ parts.prefix.len >= 0

InitG ==
    /\ IdleX
    /\ IdleL
    /\ IdleM
    /\ subnet_parts \in SubnetParts
    /\ subnet = SubnetText(subnet_parts)
    /\ gateway = None
    /\ pcG = "start"

\* script.py 355 / GUI.py 373: gateway = calculateGatewayIp(subnet)
CalcGateway ==
    /\ pcG = "start"
    /\ gateway' = calculateGatewayIp(subnet)
    /\ pcG' = "done"
    /\ UNCHANGED <<subnet_parts, subnet, varsX, varsL, varsM>>

NextG == CalcGateway

SpecGateway == InitG /\ [][NextG]_vars

SpecExtract == InitX /\ [][NextX]_vars

(***************************************************************************)
(* The generate step of the menu loop (script.py main, choice 1): prompt,  *)
(* request to the forwarding endpoint, extraction, the three files.  doc   *)
(* is the completion the model composes; a reply may carry all of it or    *)
(* only its first segments (a completion cut short).                       *)
(***************************************************************************)
\* script.py 108-112
validatePrompt(prompt) == Strip(prompt) # <<>>

\* what the user types before END
Prompts == {<<>>, <<SP, NL>>, <<"p">>}

\* what requests.post brings back: a RequestException, a JSON body without
\* the choices key, or one with it
Replies(d) ==
    {[status |-> "error"], [status |-> "ok", has_choices |-> FALSE]}
    \cup {[status |-> "ok", has_choices |-> TRUE, choices |-> cs] :
             cs \in {<<>>} \cup {<<Flatten(SubSeq(d, 1, k))>> : k \in 0..Len(d)}}

\* script.py 137-155
sendPromptToFlask(reply) ==
    IF reply.status = "error" THEN None
    ELSE IF ~reply.has_choices THEN None
    ELSE [choices |-> reply.choices]

\* script.py 340: os.makedirs(OUTPUT_DIR, exist_ok=True)
MakeDirs(out) == [out EXCEPT !.dir = TRUE]

\* variant: a failed extraction leaves an emptied output directory
WriteFilesOrClear(out, extracted) ==
    [dir |-> TRUE,
     files |-> [k \in ArtifactKeys |->
                   IF extracted = None THEN AbsentFile
                   ELSE FileWith(extracted.files[k])]]

\* script.py 342-346: return on a failed extraction, else createFile for
\* each of the three names
WriteFiles(out, extracted) ==
    IF extracted = None THEN out
    ELSE [dir |-> TRUE,
          files |-> [k \in ArtifactKeys |-> FileWith(extracted.files[k])]]

EmptyPromptMessage == "Prompt cannot be empty. Please try again."
NoResponseMessage == "No response from the Flask API. Exiting."
ExtractFailedMessage == "Failed to extract all required files. Exiting."
FilesSavedMessage == "[+] Files extracted and saved."

InitM ==
    /\ IdleG
    /\ IdleL
    /\ IdleM
    /\ doc \in Docs
    /\ gpt_response = [choices |-> <<>>]
    /\ extracted_files = None
    /\ pcX = "idle"

\* script.py 331-347 (choice 1); every return leaves main
Generate(prompt, reply) ==
    /\ pcMain = "menu"
    /\ choice' = "1"
    /\ IF ~validatePrompt(prompt)
       THEN /\ said' = <<EmptyPromptMessage>>
            /\ pcMain' = "exited"
            /\ UNCHANGED <<saved_prompt, output, gpt_response,
                           extracted_files>>
       ELSE /\ saved_prompt' = prompt
            /\ gpt_response' = sendPromptToFlask(reply)
            /\ IF gpt_response' = None
               THEN /\ said' = <<NoResponseMessage>>
                    /\ pcMain' = "exited"
                    /\ UNCHANGED <<output, extracted_files>>
               ELSE /\ extracted_files' = extractRelevantContent(gpt_response')
                    /\ output' = WriteFiles(MakeDirs(output), extracted_files')
                    /\ said' = << IF extracted_files' = None
                                  THEN ExtractFailedMessage
                                  ELSE FilesSavedMessage >>
                    /\ pcMain' = IF extracted_files' = None THEN "exited"
                                 ELSE "menu"
    /\ UNCHANGED <<doc, pcX, varsG, varsL>>

\* script.py 400-401 (choice 11)
Help ==
    /\ pcMain = "menu"
    /\ choice' = "11"
    /\ said' = <<"INSTRUCTIONS">>
    /\ UNCHANGED <<saved_prompt, output, pcMain, varsX, varsG, varsL>>

\* script.py 403-404 (choice 12)
Exit ==
    /\ pcMain = "menu"
    /\ choice' = "12"
    /\ said' = <<>>
    /\ pcMain' = "exited"
    /\ UNCHANGED <<saved_prompt, output, varsX, varsG, varsL>>

NextM ==
    \/ \E prompt \in Prompts, reply \in Replies(doc) : Generate(prompt, reply)
    \/ Help
    \/ Exit

SpecGenerate == InitM /\ [][NextM]_vars

(***************************************************************************)
(* The container engine, as the docker CLI answers the commands the        *)
(* program issues.  An engine state is [containers, networks, image];      *)
(* every command takes a flag saying whether the engine serves it at all   *)
(* (daemon reachable, no timeout) and answers with an exit code.           *)
(***************************************************************************)
CONTAINER_NAME == "honeypot_container"
IMAGE_NAME == "honeypot"

\* script.py 209, 368: the network used when none was saved
DefaultNetworkName == "host-only-network"
\* script.py 352 / GUI.py 368: a name the user gives
UserNetworkName == "honeynet"
NetworkNames == {DefaultNetworkName, UserNetworkName}

\* script.py 218
DefaultSubnet ==
    <<"1", "9", "2", ".", "1", "6", "8", ".", "2", "0", "0", ".", "0",
      "/", "2", "4">>
DefaultGateway ==
    <<"1", "9", "2", ".", "1", "6", "8", ".", "2", "0", "0", ".", "1">>
\* script.py 366
DefaultIp ==
    <<"1", "9", "2", ".", "1", "6", "8", ".", "1", "0", "0", ".", "1", "0">>
\* an address the user types instead
UserIp ==
    <<"1", "9", "2", ".", "1", "6", "8", ".", "2", "0", "0", ".", "1", "0">>
UserSubnet ==
    <<"1", "9", "2", ".", "1", "6", "8", ".", "1", "0", "0", ".", "0",
      "/", "2", "4">>
MalformedSubnet == <<"n", "o", "t", "-", "a", "-", "s", "u", "b", "n", "e", "t">>

EngineState == [containers |-> containers, networks |-> networks,
                image |-> image]

Call(cmd, args, rc) == [cmd |-> cmd, args |-> args, rc |-> rc]
Answer(rc, E) == [rc |-> rc, E |-> E]

AddressInNetwork(a, n) ==
    /\ n.ok /\ a.ok
    /\ AndNetmask(a.hi, a.lo, n.prefixlen) = n.network_address

\* the address lies in the subnet
InSubnet(ip, subnet_str) ==
    AddressInNetwork(IpIntFromString(ip), IPv4Network(subnet_str))

\* docker ps -a -q -f name=honeypot_container: the ids printed
EnginePsAll(E, served) == IF served THEN Len(E.containers) ELSE 0

\* docker stop <id>: a running container stops, a stopped one stays stopped
EngineStop(E, served) ==
    IF served /\ Len(E.containers) = 1
    THEN Answer(0, [E EXCEPT !.containers = <<"stopped">>])
    ELSE Answer(1, E)

\* docker rm <id>: refused for a running container
EngineRm(E, served) ==
    IF served /\ Len(E.containers) = 1 /\ E.containers[1] = "stopped"
    THEN Answer(0, [E EXCEPT !.containers = <<>>])
    ELSE Answer(1, E)

\* docker network inspect <name>
EngineNetworkInspect(E, name, served) ==
    IF served /\ \E n \in E.networks : n.name = name
    THEN Answer(0, E) ELSE Answer(1, E)

\* docker network create --driver bridge --subnet S --gateway G --internal N:
\* refused when the name is taken, the subnet is taken or malformed, or the
\* gateway lies outside the subnet
EngineNetworkCreate(E, name, subnet_str, gateway_ip, served) ==
    IF /\ served
       /\ \A n \in E.networks : n.name # name /\ n.subnet # subnet_str
       /\ InSubnet(gateway_ip, subnet_str)
    THEN Answer(0, [E EXCEPT !.networks =
                        @ \cup {[name |-> name, subnet |-> subnet_str,
                                 gateway |-> gateway_ip]}])
    ELSE Answer(1, E)

\* variant: the run is accepted although the name is in use
EngineRunAnyName(E, network_name, ip, served) ==
    IF /\ served
       /\ E.image
       /\ \E n \in E.networks :
             n.name = network_name /\ InSubnet(ip, n.subnet)
    THEN Answer(0, [E EXCEPT !.containers = @ \o <<"running">>])
    ELSE Answer(1, E)

\* docker run -d --name honeypot_container --network N --ip A ... honeypot:
\* refused when the name is in use, the image or the network is missing, or
\* the address lies outside the network's subnet
EngineRun(E, network_name, ip, served) ==
    IF /\ served
       /\ E.image
       /\ E.containers = <<>>
       /\ \E n \in E.networks :
             n.name = network_name /\ InSubnet(ip, n.subnet)
    THEN Answer(0, [E EXCEPT !.containers = @ \o <<"running">>])
    ELSE Answer(1, E)

\* docker build -t honeypot output
EngineBuild(E, served) ==
    IF served THEN Answer(0, [E EXCEPT !.image = TRUE]) ELSE Answer(1, E)

\* docker rmi -f honeypot: refused while a running container uses the image
EngineRmi(E, served) ==
    IF served /\ E.image /\ \A i \in 1..Len(E.containers) :
                                E.containers[i] # "running"
    THEN Answer(0, [E EXCEPT !.image = FALSE])
    ELSE Answer(1, E)

\* how a docker command line fares: the engine answers it, the client exits
\* non-zero because the daemon cannot be reached, or the docker executable
\* is not installed (subprocess.run raises FileNotFoundError)
EngineConditions == {"served", "unreachable", "not installed"}

\* docker ps -f name=honeypot_container --format {{.Status}}: one status
\* line per running container of that name; nothing on stdout when the
\* daemon cannot be reached
EnginePsStatus(E, condition) ==
    [raised |-> condition = "not installed",
     rc |-> IF condition = "served" THEN 0 ELSE 1,
     lines |-> IF condition = "served"
               THEN Cardinality({i \in 1..Len(E.containers) :
                                    E.containers[i] = "running"})
               ELSE 0]

\* which of the commands of one invocation the engine serves
Outcomes ==
    [ps : BOOLEAN, stop : BOOLEAN, rm : BOOLEAN, inspect : BOOLEAN,
     create : BOOLEAN, run : BOOLEAN]

(***************************************************************************)
(* The lifecycle controller.  A handler maps an engine state to            *)
(* [E, calls, report]: the state it leaves, the commands it issued and     *)
(* what it logged.                                                         *)
(***************************************************************************)
Done(E, cs, rep) == [E |-> E, calls |-> cs, report |-> rep]

\* variant: the existence check always reports an instance
checkContainerExistsAlways(E, served) == TRUE

\* utils.py 33-44: the id printed, "" when the command fails or prints none
checkContainerExists(E, served) == EnginePsAll(E, served) > 0

StatusOf(result) ==
    IF result.raised THEN "unknown"
    ELSE IF result.lines > 0 THEN "running" ELSE "stopped"

\* utils.py 21-31, GUI.py 150-159: the exit code is not looked at
checkContainerStatus(E, condition) ==
    StatusOf(EnginePsStatus(E, condition))

CreateDone(a, name, subnet_str, gateway_ip) ==
    Done(a.E,
         <<Call("network create",
                [name |-> name, subnet |-> subnet_str, gateway |-> gateway_ip],
                a.rc)>>,
         <<IF a.rc = 0 THEN "network created" ELSE "error creating network">>)

\* script.py 235-247: a failed create is logged and swallowed
createHostOnlyNetwork(E, name, subnet_str, gateway_ip, served) ==
    CreateDone(EngineNetworkCreate(E, name, subnet_str, gateway_ip, served),
               name, subnet_str, gateway_ip)

\* variant: the inspect command run without check=True
InspectUnchecked(rc) == FALSE

\* script.py 216: check=True turns a non-zero exit into CalledProcessError
InspectRaises(rc) == rc # 0

\* what the first try block of runDockerContainer leaves; raised says that a
\* command run with check=True exited non-zero (CalledProcessError)
Tried(E, cs, rep, raised) ==
    [E |-> E, calls |-> cs, report |-> rep, raised |-> raised]

InspectDone(i, cs, rep, network_name) ==
    Tried(i.E,
          cs \o <<Call("network inspect", [name |-> network_name], i.rc)>>,
          rep, InspectRaises(i.rc))

\* script.py 216
RunInspect(E, cs, rep, network_name, o) ==
    InspectDone(EngineNetworkInspect(E, network_name, o.inspect), cs, rep,
                network_name)

PsCall(o) == Call("ps", [name |-> CONTAINER_NAME], IF o.ps THEN 0 ELSE 1)

RmDone(rm, cs, rep, network_name, o) ==
    IF rm.rc # 0
    THEN Tried(rm.E, cs \o <<Call("rm", [name |-> CONTAINER_NAME], rm.rc)>>,
               rep, TRUE)
    ELSE RunInspect(rm.E,
                    cs \o <<Call("rm", [name |-> CONTAINER_NAME], rm.rc)>>,
                    rep, network_name, o)

\* script.py 214-215
StopDone(st, cs, rep, network_name, o) ==
    IF st.rc # 0
    THEN Tried(st.E, cs \o <<Call("stop", [name |-> CONTAINER_NAME], st.rc)>>,
               rep, TRUE)
    ELSE RmDone(EngineRm(st.E, o.rm),
                cs \o <<Call("stop", [name |-> CONTAINER_NAME], st.rc)>>,
                rep, network_name, o)

\* script.py 210-216: the first try block
RunTryBlock(E, network_name, o) ==
    IF ~checkContainerExists(E, o.ps)
    THEN RunInspect(E, <<PsCall(o)>>, <<>>, network_name, o)
    ELSE StopDone(EngineStop(E, o.stop), <<PsCall(o)>>,
                  <<"existing container found">>, network_name, o)

Sequel(t, c) == Done(c.E, t.calls \o c.calls, t.report \o c.report)

\* script.py 217-218: except CalledProcessError: create the default network
RunExcept(t, network_name, o) ==
    IF t.raised
    THEN Sequel(t, createHostOnlyNetwork(t.E, network_name, DefaultSubnet,
                                         DefaultGateway, o.create))
    ELSE Done(t.E, t.calls, t.report)

\* variant: a refused docker run is issued a second time
RunDoneRetried(c, r, ip_address, network_name) ==
    Done(r.E,
         c.calls \o
         [i \in 1..(IF r.rc = 0 THEN 1 ELSE 2) |->
             Call("run", [name |-> CONTAINER_NAME, network |-> network_name,
                          ip |-> ip_address], r.rc)],
         c.report \o <<IF r.rc = 0 THEN "container started"
                       ELSE "error running container">>)

RunDone(c, r, ip_address, network_name) ==
    Done(r.E,
         c.calls \o <<Call("run", [name |-> CONTAINER_NAME,
                                   network |-> network_name,
                                   ip |-> ip_address], r.rc)>>,
         c.report \o <<IF r.rc = 0 THEN "container started"
                       ELSE "error running container">>)

\* script.py 219-233: the second try block
RunSecondTry(c, ip_address, network_name, o) ==
    RunDone(c, EngineRun(c.E, network_name, ip_address, o.run), ip_address,
            network_name)

\* script.py 209-233
runDockerContainer(E, ip_address, network_name, o) ==
    RunSecondTry(RunExcept(RunTryBlock(E, network_name, o), network_name, o),
                 ip_address, network_name, o)

StopReport(st, o) ==
    Done(st.E, <<PsCall(o), Call("stop", [name |-> CONTAINER_NAME], st.rc)>>,
         <<"container stopped">>)

\* script.py 252-258: the exit code of docker stop is not looked at
stopContainer(E, o) ==
    IF checkContainerExists(E, o.ps)
    THEN StopReport(EngineStop(E, o.stop), o)
    ELSE Done(E, <<PsCall(o)>>, <<"container not running">>)

RemoveReport(rm, o) ==
    Done(rm.E, <<PsCall(o), Call("rm", [name |-> CONTAINER_NAME], rm.rc)>>,
         <<"container removed">>)

\* script.py 260-266: the exit code of docker rm is not looked at
removeContainer(E, o) ==
    IF checkContainerExists(E, o.ps)
    THEN RemoveReport(EngineRm(E, o.rm), o)
    ELSE Done(E, <<PsCall(o)>>, <<"container not found">>)

BuildReport(b) ==
    Done(b.E, <<Call("build", [tag |-> IMAGE_NAME], b.rc)>>,
         <<IF b.rc = 0 THEN "image built" ELSE "error building image">>)

\* script.py 201-207
buildDockerImage(E, served) == BuildReport(EngineBuild(E, served))

RmiReport(b) ==
    Done(b.E, <<Call("rmi", [tag |-> IMAGE_NAME], b.rc)>>, <<"image removed">>)

\* script.py 268-270
removeImage(E, served) == RmiReport(EngineRmi(E, served))

(***************************************************************************)
(* The menu loop of script.py main: one action per choice that drives the  *)
(* engine.                                                                 *)
(***************************************************************************)
IpInputs == {<<>>, UserIp}
SubnetInputs == {DefaultSubnet, UserSubnet, MalformedSubnet}
GatewayInputs == {<<>>, DefaultGateway}

InitL ==
    /\ IdleX
    /\ IdleG
    /\ IdleL
    /\ IdleM

Apply(d) ==
    /\ containers' = d.E.containers
    /\ networks' = d.E.networks
    /\ image' = d.E.image
    /\ calls' = d.calls
    /\ report' = d.report
    /\ pre' = EngineState

RunWith(ip, name, o) ==
    /\ saved_ip' = ip
    /\ op' = [name |-> "run", ip |-> ip, network |-> name]
    /\ Apply(runDockerContainer(EngineState, ip, name, o))
    /\ UNCHANGED <<saved_network, varsX, varsG, varsM>>

\* script.py 365-369 (choice 3)
RunContainer(ip_input, o) ==
    RunWith(IF ip_input # <<>> THEN ip_input ELSE DefaultIp,
            IF saved_network # "" THEN saved_network ELSE DefaultNetworkName,
            o)

\* script.py 374-375 (choice 5)
StopContainer(o) ==
    /\ op' = [name |-> "stop"]
    /\ Apply(stopContainer(EngineState, o))
    /\ UNCHANGED <<saved_network, saved_ip, varsX, varsG, varsM>>

\* script.py 377-378 (choice 6)
RemoveContainer(o) ==
    /\ op' = [name |-> "remove"]
    /\ Apply(removeContainer(EngineState, o))
    /\ UNCHANGED <<saved_network, saved_ip, varsX, varsG, varsM>>

\* script.py 371-372 (choice 4)
BuildImage(served) ==
    /\ op' = [name |-> "build"]
    /\ Apply(buildDockerImage(EngineState, served))
    /\ UNCHANGED <<saved_network, saved_ip, varsX, varsG, varsM>>

\* script.py 380-381 (choice 7)
RemoveImage(served) ==
    /\ op' = [name |-> "removeImage"]
    /\ Apply(removeImage(EngineState, served))
    /\ UNCHANGED <<saved_network, saved_ip, varsX, varsG, varsM>>

StatusCalls(result) ==
    IF result.raised THEN <<>>
    ELSE <<Call("ps status", [name |-> CONTAINER_NAME], result.rc)>>

\* GUI.py 199: status = checkContainerStatus()
CheckStatus(condition) ==
    /\ op' = [name |-> "status", engine |-> condition]
    /\ Apply(Done(EngineState,
                  StatusCalls(EnginePsStatus(EngineState, condition)),
                  <<checkContainerStatus(EngineState, condition)>>))
    /\ UNCHANGED <<saved_network, saved_ip, varsX, varsG, varsM>>

CreatePrinted(d) ==
    Done(d.E, d.calls, d.report \o <<"network created (printed)">>)

\* script.py 355-363
CreateWith(g, name, subnet_input, gateway_input, served) ==
    /\ op' = [name |-> "createNetwork", network |-> name,
              subnet |-> subnet_input]
    /\ IF ~g.ok
       THEN /\ Apply(Done(EngineState, <<>>, <<"failed to create network">>))
            /\ UNCHANGED saved_network
       ELSE /\ Apply(CreatePrinted(
                   createHostOnlyNetwork(
                       EngineState, name, subnet_input,
                       IF gateway_input # <<>> THEN gateway_input ELSE g.ip,
                       served)))
            /\ saved_network' = name
    /\ UNCHANGED <<saved_ip, varsX, varsG, varsM>>

\* script.py 235-247 has no return statement: the call evaluates to None,
\* which the if of GUI.py 380 takes for false
CreateReturnIsTruthy(d) == FALSE

FormDone(d, name) ==
    IF CreateReturnIsTruthy(d)
    THEN /\ Apply(Done(d.E, d.calls, d.report \o <<"network created (form)">>))
         /\ saved_network' = name
    ELSE /\ Apply(Done(d.E, d.calls,
                       d.report \o <<"Failed to create network.">>))
         /\ UNCHANGED saved_network

\* GUI.py 371-386: when calculateGatewayIp raised, gateway_ip is unbound and
\* the submit ends in a NameError before any engine call
FormWith(g, name, subnet_input, served) ==
    /\ op' = [name |-> "createNetworkForm", network |-> name,
              subnet |-> subnet_input]
    /\ IF ~g.ok
       THEN /\ Apply(Done(EngineState, <<>>,
                          <<"Error in subnet format", "NameError">>))
            /\ UNCHANGED saved_network
       ELSE FormDone(createHostOnlyNetwork(EngineState, name, subnet_input,
                                           g.ip, served), name)
    /\ UNCHANGED <<saved_ip, varsX, varsG, varsM>>

\* GUI.py 367-386 (form create_new_net_form, Create Network submitted)
CreateNetworkForm(name, subnet_input, served) ==
    FormWith(calculateGatewayIp(subnet_input), name, subnet_input, served)

\* script.py 349-363 (choice 2)
CreateNetwork(name, subnet_input, gateway_input, served) ==
    CreateWith(calculateGatewayIp(subnet_input), name, subnet_input,
               gateway_input, served)

Next ==
    \/ \E ip \in IpInputs, o \in Outcomes : RunContainer(ip, o)
    \/ \E o \in Outcomes : StopContainer(o)
    \/ \E o \in Outcomes : RemoveContainer(o)
    \/ \E served \in BOOLEAN : BuildImage(served)
    \/ \E served \in BOOLEAN : RemoveImage(served)
    \/ \E name \in NetworkNames, sn \in SubnetInputs, gw \in GatewayInputs,
          served \in BOOLEAN : CreateNetwork(name, sn, gw, served)
    \/ \E condition \in EngineConditions : CheckStatus(condition)
    \/ \E name \in NetworkNames, sn \in SubnetInputs, served \in BOOLEAN :
          CreateNetworkForm(name, sn, served)

Spec == InitL /\ [][Next]_vars

(***************************************************************************)
(* Gateway calculator properties.  The expected address is stated on the   *)
(* octets the subnet string was composed of.                               *)
(***************************************************************************)
OctetVals(parts) == [i \in 1..4 |-> parts.octets[i].val]

\* number of host bits that fall into octet i under prefix length p
HostBitsIn(i, p) ==
    IF 8 * i - p <= 0 THEN 0 ELSE IF 8 * i - p >= 8 THEN 8 ELSE 8 * i - p

\* the network base address: every host bit cleared
NetworkBase(parts) ==
    [i \in 1..4 |->
        LET k == Pow2(HostBitsIn(i, parts.prefix.len))
        IN  (parts.octets[i].val \div k) * k]

HasHostBits(parts) == NetworkBase(parts) # OctetVals(parts)

AllOnesAddress == [i \in 1..4 |-> 255]

\* the next address, for o below 255.255.255.255
Successor(o) ==
    IF o[4] < 255 THEN [o EXCEPT ![4] = o[4] + 1]
    ELSE IF o[3] < 255 THEN [o EXCEPT ![3] = o[3] + 1, ![4] = 0]
    ELSE IF o[2] < 255 THEN [o EXCEPT ![2] = o[2] + 1, ![3] = 0, ![4] = 0]
    ELSE [o EXCEPT ![1] = o[1] + 1, ![2] = 0, ![3] = 0, ![4] = 0]

Dotted(o) ==
    ToStr(o[1]) \o <<".">> \o ToStr(o[2]) \o <<".">> \o
    ToStr(o[3]) \o <<".">> \o ToStr(o[4])

BasePlusOne(parts) ==
    [ok |-> TRUE, ip |-> Dotted(Successor(NetworkBase(parts)))]

ExampleSubnet ==
    <<"1", "9", "2", ".", "1", "6", "8", ".", "2", "0", "0", ".", "0",
      "/", "2", "4">>
ExampleGateway ==
    <<"1", "9", "2", ".", "1", "6", "8", ".", "2", "0", "0", ".", "1">>

\* address/len with the prefix length written as a number: the strings every
\* reading calls CIDR notation (a bare address and a dotted mask are accepted
\* by the parser as well)
PlainCidrForm(parts) ==
    /\ parts.prefix.slash
    /\ \A i \in 1..Len(parts.prefix.text) : parts.prefix.text[i] # "."

\* C4 as stated: for every valid IPv4 CIDR string, of every prefix length
\* and every base address, calculateGatewayIp returns the network base
\* address plus 1 in dotted decimal and does not fail.
C4_AlwaysBasePlusOne ==
    (pcG = "done" /\ PlainCidrForm(subnet_parts) /\ ValidCidr(subnet_parts))
        => gateway = BasePlusOne(subnet_parts)

\* C4 amended: for every valid IPv4 CIDR string whose network base address
\* is below 255.255.255.255 (every prefix length, /31 and /32 included)
\* calculateGatewayIp returns base plus 1 in dotted decimal; when the base is
\* 255.255.255.255 it raises the ValueError instead; 192.168.200.0/24 gives
\* 192.168.200.1.
C4_BasePlusOneBelowTop ==
    (pcG = "done" /\ ValidCidr(subnet_parts)) =>
        /\ NetworkBase(subnet_parts) # AllOnesAddress
              => gateway = BasePlusOne(subnet_parts)
        /\ NetworkBase(subnet_parts) = AllOnesAddress
              => gateway = InvalidSubnetFormat
        /\ subnet = ExampleSubnet
              => gateway = [ok |-> TRUE, ip |-> ExampleGateway]

\* C4 witness: 255.255.255.254/31 has been given its gateway, the broadcast
\* address 255.255.255.255.
C4_Witness ==
    /\ pcG = "done" /\ ValidCidr(subnet_parts)
    /\ subnet_parts.prefix.len = 31
    /\ OctetVals(subnet_parts) = [AllOnesAddress EXCEPT ![4] = 254]
    /\ gateway.ok
    /\ gateway.ip = Dotted(AllOnesAddress)

\* C5: calculateGatewayIp raises the invalid-format ValueError for every
\* string that is no IPv4 CIDR string, and only for those.
C5_FailsExactlyOnUnparseable ==
    (pcG = "done" /\ PlainCidrForm(subnet_parts)) =>
        (gateway = InvalidSubnetFormat <=> ~ValidCidr(subnet_parts))

\* strings with the same first octet and a prefix of the same length whose
\* addresses agree on the prefix bits
HostVariants(parts) ==
    { q \in { [parts EXCEPT !.octets = <<parts.octets[1], a, b, c>>,
                            !.prefix = m] :
                  a \in Octet2, b \in Octet3, c \in Octet4,
                  m \in {x \in PrefixTokens : x.len = parts.prefix.len} } :
        ValidCidr(q) /\ NetworkBase(q) = NetworkBase(parts) }

\* C6: a CIDR string with non-zero host bits is accepted and gives the
\* normalized network address plus 1, and any CIDR string with the same
\* prefix length and the same prefix bits gives the same result.
C6_NonStrictParsing ==
    (pcG = "done" /\ ValidCidr(subnet_parts)) =>
        /\ HasHostBits(subnet_parts) => gateway = BasePlusOne(subnet_parts)
        /\ \A q \in HostVariants(subnet_parts) :
              calculateGatewayIp(SubnetText(q)) = gateway

\* C6 witness: a string with host bits set got a gateway, and another
\* spelling of the same network exists.
C6_Witness ==
    /\ pcG = "done" /\ ValidCidr(subnet_parts)
    /\ HasHostBits(subnet_parts)
    /\ subnet_parts.prefix.len = 24
    /\ \E q \in HostVariants(subnet_parts) :
          SubnetText(q) # subnet /\ ~HasHostBits(q)
    /\ gateway.ok

(***************************************************************************)
(* Extractor properties                                                    *)
(***************************************************************************)
HasText == gpt_response.choices # <<>>

\* the trimmed body of the n-th fenced block the text was composed of
TrimmedBody(n) == Strip(BlocksOf(doc)[n].body)

FirstThreeNonEmpty ==
    /\ Len(BlocksOf(doc)) >= 3
    /\ \A n \in 1..3 : TrimmedBody(n) # <<>>

PositionalBinding ==
    [k \in ArtifactKeys |-> TrimmedBody(BlockIndex(k))]

\* C1: a text made of prose and three or more fenced blocks whose first
\* three trimmed bodies A, B, C are non-empty is extracted to exactly
\* Dockerfile = A, supervisord.conf = B, setup_services.sh = C, whatever the
\* labels are and whatever follows the third block.
C1_PositionalExtraction ==
    (pcX = "done" /\ HasText /\ WellFormed(doc) /\ FirstThreeNonEmpty)
        => extracted_files = [ok |-> TRUE, files |-> PositionalBinding]

\* C1 witness: four blocks, the first one labelled ini and the second one
\* unlabelled, a non-empty fourth block, extraction done and successful.
C1_Witness ==
    /\ pcX = "done" /\ HasText /\ WellFormed(doc) /\ FirstThreeNonEmpty
    /\ Len(BlocksOf(doc)) = 4
    /\ BlocksOf(doc)[1].label = <<"i", "n", "i">>
    /\ BlocksOf(doc)[2].label = <<>>
    /\ TrimmedBody(2) # TrimmedBody(3)
    /\ TrimmedBody(4) # <<>> /\ TrimmedBody(4) # TrimmedBody(3)
    /\ extracted_files.ok

\* C2: a text made of prose and fewer than three fenced blocks is never
\* extracted: the result is the failure value.
C2_FewerThanThreeFails ==
    (pcX = "done" /\ HasText /\ WellFormed(doc) /\ Len(BlocksOf(doc)) < 3)
        => extracted_files = None

\* C2 witness: prose around exactly two non-empty blocks, extraction failed.
C2_Witness ==
    /\ pcX = "done" /\ HasText /\ WellFormed(doc)
    /\ Len(BlocksOf(doc)) = 2
    /\ \A n \in 1..2 : TrimmedBody(n) # <<>>
    /\ \E i \in 1..Len(doc) : doc[i].kind = "prose"
    /\ extracted_files = None

\* C3: the result is the failure value or a mapping with exactly the three
\* keys, each bound to non-empty trimmed content; when one of the first three
\* blocks is empty after trimming the result is the failure value.
C3_AllOrNothing ==
    pcX = "done" =>
        /\ \/ extracted_files = None
           \/ /\ extracted_files.ok
              /\ DOMAIN extracted_files.files = ArtifactKeys
              /\ \A k \in ArtifactKeys :
                    /\ extracted_files.files[k] # <<>>
                    /\ Strip(extracted_files.files[k]) = extracted_files.files[k]
        /\ (/\ HasText /\ WellFormed(doc) /\ Len(BlocksOf(doc)) >= 3
            /\ \E n \in 1..3 : TrimmedBody(n) = <<>>)
              => extracted_files = None

\* C3 witness: three blocks, the second one blank, the others not; failed.
C3_Witness ==
    /\ pcX = "done" /\ HasText /\ WellFormed(doc)
    /\ Len(BlocksOf(doc)) >= 3
    /\ TrimmedBody(1) # <<>> /\ TrimmedBody(2) = <<>> /\ TrimmedBody(3) # <<>>
    /\ BlocksOf(doc)[2].body # <<>>
    /\ extracted_files = None


(***************************************************************************)
(* Lifecycle properties.  calls is the sequence of engine commands the     *)
(* last handler issued, pre the engine state it started from.              *)
(***************************************************************************)
CallsOf(cmd) == {i \in DOMAIN calls : calls[i].cmd = cmd}
Failed(i) == calls[i].rc # 0
Succeeded(i) == calls[i].rc = 0
InRun == op.name = "run"

C7_RefusedWitness ==
    /\ InRun
    /\ pre.containers # <<>>
    /\ CallsOf("rm") = {}
    /\ \E r \in CallsOf("run") : Failed(r)
    /\ containers = pre.containers

\* C8: when runDockerContainer is invoked while an instance under the
\* reserved name exists, every docker run call is preceded, in the same
\* invocation, by a docker stop call and then a docker rm call.
C8_StopRmBeforeRun ==
    (InRun /\ pre.containers # <<>> /\ Succeeded(1))
       => \A r \in CallsOf("run") :
             \E st \in CallsOf("stop"), m \in CallsOf("rm") :
                st < m /\ m < r

\* C9: whenever docker network inspect fails inside runDockerContainer, a
\* network create call with the target name, subnet 192.168.200.0/24 and
\* gateway 192.168.200.1, which is calculateGatewayIp of that subnet, is
\* issued before the docker run call.
C9_CreateAfterFailedInspect ==
    InRun =>
       \A i \in CallsOf("network inspect") :
          Failed(i) =>
             \E c \in CallsOf("network create"), r \in CallsOf("run") :
                /\ i < c /\ c < r
                /\ calls[c].args.name = op.network
                /\ calls[c].args.subnet = ExampleSubnet
                /\ calls[c].args.gateway = ExampleGateway
                /\ calculateGatewayIp(calls[c].args.subnet)
                      = [ok |-> TRUE, ip |-> calls[c].args.gateway]
                /\ \A r2 \in CallsOf("run") : c < r2

\* the inspect failed, the default network was created and the run started
C9_Witness ==
    /\ InRun
    /\ \E i \in CallsOf("network inspect") : Failed(i)
    /\ \E c \in CallsOf("network create") : Succeeded(c)
    /\ \E r \in CallsOf("run") : Succeeded(r)
    /\ \E n \in networks : n.name = op.network /\ n.subnet = ExampleSubnet

\* C10: if the stop call, the remove call or the default network create
\* call of runDockerContainer fails, no later engine call of that
\* invocation is issued.
C10_FailureAborts ==
    InRun =>
       \A i \in CallsOf("stop") \cup CallsOf("rm") \cup CallsOf("network create") :
          Failed(i) => i = Len(calls)


\* C11: if any engine call made by runDockerContainer fails (stop, rm,
\* network inspect, network create or run), the container slot is in the same
\* state (absent, stopped or running) after the invocation as before it.
C11_FailureKeepsSlot ==
    (/\ InRun
     /\ \E i \in DOMAIN calls :
           /\ calls[i].cmd \in {"stop", "rm", "network inspect",
                                "network create", "run"}
           /\ Failed(i))
       => containers = pre.containers

\* the case C11 singles out: a failed docker run after a successful stop and
\* remove does not leave a previously running slot absent
C11_FailedRunKeepsRunning ==
    (/\ InRun
     /\ pre.containers = <<"running">>
     /\ \E st \in CallsOf("stop"), m \in CallsOf("rm") :
           Succeeded(st) /\ Succeeded(m)
     /\ \E r \in CallsOf("run") : Failed(r))
       => containers # <<>>


\* C12: checkContainerStatus never raises and returns running when the
\* engine responds with a running instance under the reserved name, stopped
\* when the engine responds successfully but finds none, and unknown
\* whenever the engine call itself fails (engine not installed, or installed
\* but unreachable so that the query exits with an error).
C12_TernaryStatus ==
    op.name = "status" =>
       report = << IF op.engine # "served" THEN "unknown"
                   ELSE IF pre.containers = <<"running">> THEN "running"
                   ELSE "stopped" >>


\* C13: after removeContainer is invoked while an instance under the
\* reserved name exists, stopped or running, and the engine is reachable, no
\* instance under that name remains.
C13_RemoveTakesToAbsent ==
    [][\A o \in Outcomes :
          (RemoveContainer(o) /\ containers # <<>> /\ o.ps /\ o.rm)
             => containers' = <<>>]_vars

Said(text) == \E i \in DOMAIN report : report[i] = text

\* C14: when no instance under the reserved name exists, stopContainer and
\* removeContainer issue no docker stop and no docker rm call, leave the
\* slot, the image and the networks unchanged, and report a warning instead
\* of success.
C14_NoInstanceNoOp ==
    (op.name \in {"stop", "remove"} /\ pre.containers = <<>>)
       => /\ CallsOf("stop") = {} /\ CallsOf("rm") = {}
          /\ EngineState = pre
          /\ report = << IF op.name = "stop" THEN "container not running"
                         ELSE "container not found" >>

\* remove with no instance present, while an image and a network exist
C14_Witness ==
    /\ op.name = "remove"
    /\ pre.containers = <<>>
    /\ pre.image /\ pre.networks # {}
    /\ report = <<"container not found">>
    /\ EngineState = pre

EngineCommands ==
    {"stop", "rm", "network inspect", "network create", "run", "build"}

\* C15: within one invocation of run, stop, remove, buildImage or
\* createNetwork each engine command (stop, rm, network inspect, network
\* create, run, build) is issued at most once, whether it succeeds or fails.
C15_NoRetry ==
    op.name \in {"run", "stop", "remove", "build", "createNetwork"}
       => \A cmd \in EngineCommands : Cardinality(CallsOf(cmd)) <= 1

\* a run whose docker stop, docker network create and docker run all failed
C15_Witness ==
    /\ InRun
    /\ \E st \in CallsOf("stop") : Failed(st)
    /\ \E c \in CallsOf("network create") : Failed(c)
    /\ \E r \in CallsOf("run") : Failed(r)
    /\ Len(calls) = 4

\* C16: an engine invocation that exits non-zero is surfaced as a failure and
\* never as success: a rejected docker network create is not reported as
\* created, a docker stop or docker rm that exits non-zero is not reported as
\* stopped or removed.
C16_FailuresSurfaced ==
    /\ (op.name = "createNetwork"
           /\ \E c \in CallsOf("network create") : Failed(c))
          => ~Said("network created (printed)")
    /\ (op.name = "stop" /\ \E st \in CallsOf("stop") : Failed(st))
          => ~Said("container stopped")
    /\ (op.name = "remove" /\ \E m \in CallsOf("rm") : Failed(m))
          => ~Said("container removed")

\* C20: runDockerContainer issues the default docker network create call
\* only when the network existence check was performed and failed; a failure
\* of the preceding docker stop or docker rm never triggers it.
C20_CreateOnlyAfterFailedInspect ==
    InRun =>
       \A c \in CallsOf("network create") :
          \E i \in CallsOf("network inspect") : i < c /\ Failed(i)


(***************************************************************************)
(* Generate step and extraction properties.                                *)
(***************************************************************************)
\* C17: when extraction fails during a generate step, no artifact file is
\* written: Dockerfile, supervisord.conf and setup_services.sh are exactly
\* as they were before the step, and files are written only after
\* extraction has returned all three values.
C17_NoFilesOnIncomplete ==
    [][/\ (choice' = "1" /\ said' = <<ExtractFailedMessage>>)
             => output'.files = output.files
       /\ output'.files # output.files
             => /\ extracted_files' # None
                /\ \A k \in ArtifactKeys :
                      output'.files[k] = FileWith(extracted_files'.files[k])
      ]_vars

\* an extraction failed in a directory that held the three files of an
\* earlier generate step
C17_Witness ==
    /\ choice = "1"
    /\ said = <<ExtractFailedMessage>>
    /\ extracted_files = None
    /\ \A k \in ArtifactKeys : output.files[k].exists

\* C18: an empty prompt, a missing response of the forwarding endpoint or a
\* failed extraction is turned into a message and the menu loop goes on; the
\* loop ends only on the Exit choice.
C18_LoopEndsOnlyOnExit == pcMain = "exited" => choice = "12"

C21_DefaultsConsistent ==
    (/\ InRun
     /\ op.ip = DefaultIp
     /\ \A n \in pre.networks : n.name # op.network)
       => \A c \in CallsOf("network create") :
             Succeeded(c) => InSubnet(op.ip, calls[c].args.subnet)

\* C22: in the form-based shell, when the docker network create call of
\* createHostOnlyNetwork succeeds the shell reports success and records the
\* new network as the persisted network; it reports the failure only when
\* the engine call failed.
C22_FormReportMatchesEngine ==
    op.name = "createNetworkForm" =>
       /\ (\E c \in CallsOf("network create") : Succeeded(c))
             => /\ Said("network created (form)")
                /\ saved_network = op.network
       /\ Said("Failed to create network.")
             => \E c \in CallsOf("network create") : Failed(c)

====
